---- MODULE Spec2Model ----
(***************************************************************************)
(* A model of luacpp (include/luacpp.hpp, source/luacpp.cpp): the binding  *)
(* layer between a C++ host and the Lua 5.4 operand stack.                 *)
(*                                                                         *)
(* The Lua state is a stack of values (stack), a heap of tables (heap)     *)
(* and the registry (registry).  Each component of the library has its own *)
(* specification over that state:                                          *)
(*   SpecIter   foreach_pair_in_table                                      *)
(*   SpecInfo   info_field and impl::info_field_string                     *)
(*   SpecDebug  getstack / getinfo / getfunction                           *)
(*   SpecUd     newuserdata<T> and the collector                           *)
(*   SpecPush   the stack_traits registry (push / to / pull)               *)
(*   SpecTraits is_pushable / is_pullable                                  *)
(*   SpecResult resume_result                                              *)
(*   SpecTable  rawget / rawset / get_or_create_table                      *)
(*   SpecLoad   loadfile and its reader                                    *)
(***************************************************************************)
EXTENDS Integers, Sequences, FiniteSets, TLC

VARIABLES
    stack,       \* the operand stack of the lua_State, bottom first
    heap,        \* table id -> sequence of <<key, value>> in traversal order
    pc,          \* foreach_pair_in_table: position in the function
    argIndex,    \* the table index the caller passed to foreach_pair_in_table
    tableIndex,  \* foreach_pair_in_table: _tableIndex
    keyIdx,      \* foreach_pair_in_table: _keyIdx
    valueIdx,    \* foreach_pair_in_table: _valueIdx
    calls,       \* the <<key, value>> pairs handed to _fn, in call order
    depth0,      \* stack depth when foreach_pair_in_table was entered
    leaked,      \* number of values callbacks pushed and did not pop
    fields,      \* an info_field value, composed as lhs op rhs
    fieldsRev,   \* the same composition with the operands of each op swapped
    onlyNamed,   \* fields was built from the named fields by |, & and ^ only
    encoded,     \* writer holds the result of info_field_string(fields)
    writer,      \* the info_field_writer of info_field_string(fields)
    writerRev,   \* the info_field_writer of info_field_string(fieldsRev)
    stack0,      \* the stack before the last operation on it
    frames,      \* the functions of the active calls, level 0 first
    ar,          \* the debug_info record the caller passes
    dbg,         \* the outcome of the last getfunction call
    registry,    \* the registry: name -> id of the metatable, 0 when absent
    meta,        \* the metatables: id -> [name, gc]
    uds,         \* the full userdata blocks: id -> [type, mt, fin, ...]
    created,     \* per host type: descriptors newuserdata<T> created
    gcSet,       \* per host type: times newuserdata<T> set __gc
    op,          \* the last marshalling operation: kind, host type, index, value
    prev,        \* the marshalling operation before it
    query,       \* the last capability query: trait, T, extra arguments, value
    result,      \* a resume_result and what is_error() returned for it
    goc,         \* the last get_or_create_table call: overload, index, key, table
    heap0,       \* the heap before the last get_or_create_table call
    file,        \* the file at _path and the std::ifstream of reader_data on it
    rd,          \* what the reader callback returned, in call order
    ld           \* loadfile: position in the function, mode, status returned

iterVars == <<pc, argIndex, tableIndex, keyIdx, valueIdx, calls, depth0, leaked>>
luaVars == <<stack, heap>>
infoVars == <<fields, fieldsRev, onlyNamed, encoded, writer, writerRev>>
debugVars == <<stack0, frames, ar, dbg>>
udVars == <<registry, meta, uds, created, gcSet>>
pushVars == <<op, prev>>
loadVars == <<file, rd, ld>>
extVars == <<query, result, goc, heap0, loadVars>>
vars == <<luaVars, iterVars, infoVars, debugVars, udVars, pushVars, extVars>>

\* what the operations of one component leave alone
FrameIter == UNCHANGED <<infoVars, debugVars, udVars, pushVars, extVars>>
FrameInfo ==
    UNCHANGED <<luaVars, iterVars, debugVars, udVars, pushVars, extVars>>
FrameDebug == UNCHANGED <<iterVars, infoVars, udVars, pushVars, extVars>>
FrameUd ==
    UNCHANGED <<iterVars, infoVars, frames, ar, dbg, pushVars, extVars>>
FramePush ==
    UNCHANGED <<iterVars, infoVars, frames, ar, dbg, udVars, extVars>>
FrameLib == UNCHANGED <<luaVars, iterVars, infoVars, debugVars, udVars, pushVars>>
FrameTraits == FrameLib /\ UNCHANGED <<result, goc, heap0, loadVars>>
FrameResult == FrameLib /\ UNCHANGED <<query, goc, heap0, loadVars>>
FrameLoad ==
    UNCHANGED <<heap, iterVars, infoVars, frames, ar, dbg, udVars, pushVars,
                query, result, goc, heap0>>
FrameTable ==
    UNCHANGED <<iterVars, infoVars, frames, ar, dbg, udVars, pushVars,
                query, result, loadVars>>

----------------------------------------------------------------------------
(* Bounds of the model *)

\* largest number of key/value pairs in the iterated table
MaxPairs == 3
\* largest number of values one callback pushes without popping
MaxPush == 1
\* largest number of active calls
MaxFrames == 2
\* largest number of slots the host fills before it calls into the library
MaxStack == 3
\* largest number of userdata blocks allocated
MaxUd == 3
\* largest number of bytes of a text value
MaxStrLen == 2
\* largest number of extra arguments of a capability query
MaxExtras == 2
\* largest number of results a resume reports
MaxRets == 15
\* largest number of tables on the heap
MaxTables == 4
\* largest length of a file: two full buffers and a rest
MaxFileLen == 258
\* largest number of times the runtime calls the reader during one load
MaxReads == 5

----------------------------------------------------------------------------
(* Integers are bit vectors, most significant bit first, so that every     *)
(* width keeps its own minimum and maximum                                 *)

\* the bits of lua_Integer (long long)
LuaIntegerBits == 64

\* the two's complement bit vector of width w of a small integer i: the low
\* bits of i are computed, the bits above them are its sign
FromInt(i, w) ==
    LET low == 30
    IN  [k \in 1..w |->
            IF w - k >= low
            THEN (IF i < 0 THEN 1 ELSE 0)
            ELSE ((i % 2^low) \div 2^(w - k)) % 2]

\* the least and the greatest value of a signed integer of width w
IntMin(w) == [k \in 1..w |-> IF k = 1 THEN 1 ELSE 0]
IntMax(w) == [k \in 1..w |-> IF k = 1 THEN 0 ELSE 1]

\* static_cast from a signed integer to a signed integer of width w
SignedCast(bits, w) ==
    IF w >= Len(bits)
    THEN [k \in 1..w |-> IF k <= w - Len(bits) THEN bits[1]
                         ELSE bits[k - (w - Len(bits))]]
    ELSE SubSeq(bits, Len(bits) - w + 1, Len(bits))

(* Floating-point values: a class, a sign, the exponent of the leading bit *)
(* and the bits after the leading bit, without trailing zeros              *)

FloatZero == [cls |-> "zero", neg |-> FALSE, exp |-> 0, frac |-> <<>>]
FloatSpecial(c, neg) == [cls |-> c, neg |-> neg, exp |-> 0, frac |-> <<>>]
FloatFinite(neg, e, fr) == [cls |-> "finite", neg |-> neg, exp |-> e, frac |-> fr]

\* a floating-point format: p significant bits, exponents emin..emax
Binary32 == [p |-> 24, emin |-> -126, emax |-> 127]
Binary64 == [p |-> 53, emin |-> -1022, emax |-> 1023]

\* the fraction bits a value of exponent e has in a format (fewer below emin)
KeepBits(e, fmt) ==
    (fmt.p - 1) - (IF fmt.emin - e > 0 THEN fmt.emin - e ELSE 0)

\* the value is a value of the format
Representable(x, fmt) ==
    \/ x.cls # "finite"
    \/ /\ x.exp <= fmt.emax
       /\ x.exp >= fmt.emin - (fmt.p - 1)
       /\ Len(x.frac) <= KeepBits(x.exp, fmt)

\* bits without their trailing zeros
Strip(b) ==
    IF \E i \in 1..Len(b) : b[i] = 1
    THEN SubSeq(b, 1, CHOOSE i \in 1..Len(b) :
                        b[i] = 1 /\ \A j \in (i + 1)..Len(b) : b[j] = 0)
    ELSE <<>>

\* the greatest finite value of a format
FloatMax(neg, fmt) == FloatFinite(neg, fmt.emax, [i \in 1..(fmt.p - 1) |-> 1])

\* the neighbour above in magnitude of 1.b * 2^e, b of the format's length
RoundUp(neg, e, b, fmt) ==
    IF \A i \in 1..Len(b) : b[i] = 1
    THEN (IF e + 1 > fmt.emax THEN FloatSpecial("inf", neg)
          ELSE FloatFinite(neg, e + 1, <<>>))
    ELSE LET j == CHOOSE i \in 1..Len(b) :
                     b[i] = 0 /\ \A k \in (i + 1)..Len(b) : b[k] = 1
         IN  FloatFinite(neg, e, Append(SubSeq(b, 1, j - 1), 1))

\* static_cast between floating-point types: the value itself when the
\* target has it, otherwise one of its two neighbours in the target
FloatCast(x, fmt) ==
    IF Representable(x, fmt) THEN {x}
    ELSE IF x.exp > fmt.emax
    THEN {FloatSpecial("inf", x.neg), FloatMax(x.neg, fmt)}
    ELSE IF x.exp < fmt.emin - (fmt.p - 1)
    THEN {FloatSpecial("zero", x.neg),
          FloatFinite(x.neg, fmt.emin - (fmt.p - 1), <<>>)}
    ELSE LET b == SubSeq(x.frac, 1, KeepBits(x.exp, fmt))
         IN  {FloatFinite(x.neg, x.exp, Strip(b)), RoundUp(x.neg, x.exp, b, fmt)}

(* Lua values: a type tag t, a small payload n (a boolean, the id of a     *)
(* table, function or userdata), a sequence s (the bits of an integer, the *)
(* bytes of a string) and a floating-point payload f                       *)

LuaNil == [t |-> "nil", n |-> 0, s |-> <<>>, f |-> FloatZero]
LuaInteger(bits) == [t |-> "integer", n |-> 0, s |-> bits, f |-> FloatZero]
LuaInt(i) == LuaInteger(FromInt(i, LuaIntegerBits))
LuaNumber(x) == [t |-> "number", n |-> 0, s |-> <<>>, f |-> x]
LuaBoolean(b) ==
    [t |-> "boolean", n |-> IF b THEN 1 ELSE 0, s |-> <<>>, f |-> FloatZero]
LuaString(bytes) == [t |-> "string", n |-> 0, s |-> bytes, f |-> FloatZero]
LuaTable(id) == [t |-> "table", n |-> id, s |-> <<>>, f |-> FloatZero]
LuaFunction(id) == [t |-> "function", n |-> id, s |-> <<>>, f |-> FloatZero]
LuaUserdata(id) == [t |-> "userdata", n |-> id, s |-> <<>>, f |-> FloatZero]

----------------------------------------------------------------------------
(* The stack primitives the library wraps *)

\* lua_gettop
top(s) == Len(s)

\* lua_absindex
absMut(s, idx) == idx
abs(s, idx) == IF idx > 0 THEN idx ELSE top(s) + idx + 1

\* lua_pushnil, lua_pushvalue, lua_pop
push(s, v) == Append(s, v)
copy(s, fromIdx) == Append(s, s[abs(s, fromIdx)])
pop(s, n) == SubSeq(s, 1, Len(s) - n)

\* lua_remove: the slots above the index move down by one
remove(s, index) ==
    LET a == abs(s, index)
    IN  [i \in 1..(Len(s) - 1) |-> IF i < a THEN s[i] ELSE s[i + 1]]

\* position of key k in the traversal order of table contents t, 0 when absent
KeyPos(t, k) ==
    IF \E i \in 1..Len(t) : t[i][1] = k
    THEN CHOOSE i \in 1..Len(t) : t[i][1] = k
    ELSE 0

\* lua_next: pops the key on top; pushes the next pair of the table at _index
\* and returns 1, or pushes nothing and returns 0.  A key that is not in the
\* table, or an index that holds no table, is an error of the runtime.
next(s, h, index) ==
    LET a == abs(s, index)
        key == s[Len(s)]
        rest == pop(s, 1)
    IN  IF ~(a \in 1..(Len(s) - 1)) \/ s[a].t # "table"
        THEN [ret |-> -1, st |-> s]
        ELSE LET t == h[s[a].n]
                 p == IF key = LuaNil THEN 0 ELSE KeyPos(t, key)
             IN  IF key # LuaNil /\ p = 0
                 THEN [ret |-> -1, st |-> s]
                 ELSE IF p < Len(t)
                      THEN [ret |-> 1,
                            st |-> push(push(rest, t[p + 1][1]), t[p + 1][2])]
                      ELSE [ret |-> 0, st |-> rest]

----------------------------------------------------------------------------
(* info_field: the debug field mask, and impl::info_field_string *)

\* std::underlying_type_t<info_field> is uint16_t
RepBits == 16
RepMax == 2^RepBits - 1

\* enum class info_field
info_field_function_on_stack == 1
info_field_f == 2
info_field_l == 4
info_field_n == 8
info_field_r == 16
info_field_S == 32
info_field_t == 64
info_field_u == 128
info_field_L == 256

\* bit i of a uint16_t
Bit(m, i) == (m \div 2^i) % 2

RECURSIVE BitAnd(_, _, _)
BitAnd(a, b, i) ==
    IF i = RepBits THEN 0
    ELSE 2^i * (Bit(a, i) * Bit(b, i)) + BitAnd(a, b, i + 1)

RECURSIVE BitOr(_, _, _)
BitOr(a, b, i) ==
    IF i = RepBits THEN 0
    ELSE 2^i * (IF Bit(a, i) + Bit(b, i) > 0 THEN 1 ELSE 0) + BitOr(a, b, i + 1)

RECURSIVE BitXor(_, _, _)
BitXor(a, b, i) ==
    IF i = RepBits THEN 0
    ELSE 2^i * ((Bit(a, i) + Bit(b, i)) % 2) + BitXor(a, b, i + 1)

\* operator&, operator|, operator^, operator~ of info_field
info_and(lhs, rhs) == BitAnd(lhs, rhs, 0)
info_or(lhs, rhs) == BitOr(lhs, rhs, 0)
info_xor(lhs, rhs) == BitXor(lhs, rhs, 0)
info_not(rhs) == (-(rhs) - 1) % (RepMax + 1)

\* the character that ends a C string
NUL == "\\0"

\* the C string a buffer holds: the characters before the first NUL
CStr(buf) ==
    LET n == IF \E i \in 1..Len(buf) : buf[i] = NUL
             THEN (CHOOSE i \in 1..Len(buf) :
                      buf[i] = NUL /\ \A j \in 1..(i - 1) : buf[j] # NUL) - 1
             ELSE Len(buf)
    IN  SubSeq(buf, 1, n)

\* impl::info_field_char; its default case asserts and returns '\0'
info_field_char(field) ==
    CASE field = info_field_function_on_stack -> ">"
      [] field = info_field_f -> "f"
      [] field = info_field_L -> "L"
      [] field = info_field_l -> "l"
      [] field = info_field_n -> "n"
      [] field = info_field_r -> "r"
      [] field = info_field_S -> "S"
      [] field = info_field_t -> "t"
      [] field = info_field_u -> "u"
      [] OTHER -> NUL

\* impl::check_field
check_fieldMut(field, checkFor) == info_and(field, checkFor) = field
check_field(field, checkFor) == info_and(field, checkFor) = checkFor

\* std::array<value_type, 16>
BufSize == 16

\* info_field_writer(): buf_{ 0 }, it_(buf_.begin()); it counts the slots
\* before it_, asserted records a failed assert
info_field_writer ==
    [buf |-> [i \in 1..BufSize |-> NUL], it |-> 0, asserted |-> FALSE]

\* info_field_writer::append: assert(_it != _end); *_it = c; advance
appendMut(w, c) ==
    IF w.it = BufSize
    THEN [w EXCEPT !.asserted = TRUE]
    ELSE [w EXCEPT !.buf[w.it + 1] = c]
append(w, c) ==
    IF w.it = BufSize
    THEN [w EXCEPT !.asserted = TRUE]
    ELSE [w EXCEPT !.buf[w.it + 1] = c, !.it = w.it + 1]

\* info_field_writer::append_if
append_if(w, flds, hasField) ==
    IF check_field(flds, hasField)
    THEN LET c == info_field_char(hasField)
         IN  IF c # NUL THEN append(w, c) ELSE [w EXCEPT !.asserted = TRUE]
    ELSE w

\* the order in which info_field_string tests the fields
FieldOrder ==
    <<info_field_function_on_stack, info_field_f, info_field_l, info_field_n,
      info_field_r, info_field_S, info_field_t, info_field_u, info_field_L>>

RECURSIVE append_all(_, _, _)
append_all(w, flds, i) ==
    IF i > Len(FieldOrder) THEN w
    ELSE append_all(append_if(w, flds, FieldOrder[i]), flds, i + 1)

\* impl::info_field_string, before as_array()
info_field_build(flds) == append_all(info_field_writer, flds, 1)

\* impl::info_field_string
info_field_string(flds) == info_field_build(flds).buf

\* the named fields
NamedFields == {FieldOrder[i] : i \in 1..Len(FieldOrder)}

\* an info_field value cast from a raw uint16_t with a bit outside the fields
RawFields == {2^(RepBits - 1)}

\* fields = fields | x, fields & x, fields ^ x; the writer of an earlier
\* info_field_string call is gone
compose_or ==
    \E x \in NamedFields :
        /\ fields' = info_or(fields, x)
        /\ fieldsRev' = info_or(x, fieldsRev)
        /\ encoded' = FALSE
        /\ writer' = info_field_writer
        /\ writerRev' = info_field_writer
        /\ UNCHANGED onlyNamed
    /\ FrameInfo

compose_and ==
    \E x \in {info_or(y, info_field_n) : y \in NamedFields} :
        /\ fields' = info_and(fields, x)
        /\ fieldsRev' = info_and(x, fieldsRev)
        /\ encoded' = FALSE
        /\ writer' = info_field_writer
        /\ writerRev' = info_field_writer
        /\ UNCHANGED onlyNamed
    /\ FrameInfo

compose_xor ==
    \E x \in NamedFields :
        /\ fields' = info_xor(fields, x)
        /\ fieldsRev' = info_xor(x, fieldsRev)
        /\ encoded' = FALSE
        /\ writer' = info_field_writer
        /\ writerRev' = info_field_writer
        /\ UNCHANGED onlyNamed
    /\ FrameInfo

\* fields = ~fields
compose_not ==
    /\ fields' = info_not(fields)
    /\ fieldsRev' = info_not(fieldsRev)
    /\ onlyNamed' = FALSE
    /\ encoded' = FALSE
    /\ writer' = info_field_writer
    /\ writerRev' = info_field_writer
    /\ FrameInfo

\* fields = fields | info_field(raw)
compose_raw ==
    \E x \in RawFields :
        /\ fields' = info_or(fields, x)
        /\ fieldsRev' = info_or(x, fieldsRev)
        /\ onlyNamed' = FALSE
        /\ encoded' = FALSE
        /\ writer' = info_field_writer
        /\ writerRev' = info_field_writer
    /\ FrameInfo

\* impl::info_field_string(fields)
encode ==
    /\ ~encoded
    /\ writer' = info_field_build(fields)
    /\ writerRev' = info_field_build(fieldsRev)
    /\ encoded' = TRUE
    /\ UNCHANGED <<fields, fieldsRev, onlyNamed>>
    /\ FrameInfo

IdleInfo ==
    /\ fields = 0
    /\ fieldsRev = 0
    /\ onlyNamed = TRUE
    /\ encoded = FALSE
    /\ writer = info_field_writer
    /\ writerRev = info_field_writer

----------------------------------------------------------------------------
(* getstack, getinfo, getfunction *)

\* debug_info{}: i_ci is the call the record describes, 0 when none
debug_info == [i_ci |-> 0]

\* lua_getstack: level 0 is the running function; 1 and the record filled
\* when the level exists, 0 otherwise.  The stack is not touched.
lua_getstack(fr, lvl, info) ==
    IF lvl >= 0 /\ lvl < Len(fr)
    THEN [status |-> 1, ar |-> [info EXCEPT !.i_ci = lvl + 1]]
    ELSE [status |-> 0, ar |-> info]

\* getstack(state_ptr, int, debug_info&)
getstack(fr, lvl, info) ==
    LET r == lua_getstack(fr, lvl, info)
    IN  [ok |-> r.status = 1, ar |-> r.ar]

\* the options lua_getinfo knows
InfoOptions == {"S", "l", "n", "r", "u", "t", "L", "f"}

\* lua_getinfo: a leading '>' takes the function from the top of the stack,
\* otherwise it is the function of the call in the record; 0 when an option
\* is unknown, and even then option 'f' pushes the function
lua_getinfo(s, fr, what, info) ==
    LET fromStack == Len(what) > 0 /\ what[1] = ">"
        func == IF fromStack THEN s[Len(s)] ELSE LuaFunction(fr[info.i_ci])
        s1 == IF fromStack THEN pop(s, 1) ELSE s
        opts == IF fromStack THEN Tail(what) ELSE what
    IN  [status |-> IF \A i \in 1..Len(opts) : opts[i] \in InfoOptions
                    THEN 1 ELSE 0,
         st |-> IF \E i \in 1..Len(opts) : opts[i] = "f"
                THEN push(s1, func) ELSE s1]

\* getinfo(state_ptr, const char*, debug_info&)
getinfoMut(s, fr, what, info) ==
    LET r == lua_getinfo(s, fr, what, info)
    IN  [ok |-> r.status = 0, st |-> r.st]
getinfo(s, fr, what, info) ==
    LET r == lua_getinfo(s, fr, what, info)
    IN  [ok |-> r.status = 1, st |-> r.st]

\* getinfo(state_ptr, info_field, debug_info&)
getinfo_fields(s, fr, flds, info) ==
    getinfo(s, fr, CStr(info_field_string(flds)), info)

\* getfunction(state_ptr, int, debug_info&)
getfunction(s, fr, lvl, info) ==
    LET r1 == getstack(fr, lvl, info)
    IN  IF ~r1.ok
        THEN [ret |-> FALSE, st |-> s, ar |-> r1.ar,
              okStack |-> FALSE, okInfo |-> FALSE]
        ELSE LET r2 == getinfo_fields(s, fr, info_field_f, r1.ar)
             IN  [ret |-> r2.ok, st |-> r2.st, ar |-> r1.ar,
                  okStack |-> TRUE, okInfo |-> r2.ok]

\* the host calls getfunction(_lua, lvl, ar)
call_getfunction ==
    /\ Len(stack) < MaxStack
    /\ \E lvl \in -1..MaxFrames :
          LET r == getfunction(stack, frames, lvl, ar)
          IN  /\ stack' = r.st
              /\ ar' = r.ar
              /\ dbg' = [called |-> TRUE, ret |-> r.ret, level |-> lvl,
                         okStack |-> r.okStack, okInfo |-> r.okInfo]
    /\ stack0' = stack
    /\ UNCHANGED <<heap, frames>>
    /\ FrameDebug

NoCall ==
    [called |-> FALSE, ret |-> FALSE, level |-> 0,
     okStack |-> FALSE, okInfo |-> FALSE]

\* the host pushes a value of its own
host_push ==
    /\ Len(stack) < MaxStack
    /\ stack' = push(stack, LuaInt(1))
    /\ stack0' = stack
    /\ dbg' = NoCall
    /\ UNCHANGED <<heap, frames, ar>>
    /\ FrameDebug

\* the host pops the top of the stack
host_pop ==
    /\ Len(stack) > 0
    /\ stack' = pop(stack, 1)
    /\ stack0' = stack
    /\ dbg' = NoCall
    /\ UNCHANGED <<heap, frames, ar>>
    /\ FrameDebug

IdleDebug ==
    /\ stack0 = <<>>
    /\ frames = <<>>
    /\ ar = debug_info
    /\ dbg = NoCall

----------------------------------------------------------------------------
(* newuserdata<T> and the collector *)

\* the host types instantiated as userdata
HostTypes == {"Pod", "Own", "Box<Own>"}

\* std::is_trivially_destructible_v<T>, std::is_trivially_constructible_v<T>
is_trivially_destructible(T) == T = "Pod"
is_trivially_constructible(T) == T = "Pod"

\* the spelling of T in the signature of a function
TypeChars(T) ==
    CASE T = "Pod" -> <<"P", "o", "d">>
      [] T = "Own" -> <<"O", "w", "n">>
      [] T = "Box<Own>" -> <<"B", "o", "x", "<", "O", "w", "n", ">">>

\* function_name_v
function_name_v ==
    <<"u", "s", "e", "r", "d", "a", "t", "a", "_",
      "t", "y", "p", "e", "_", "n", "a", "m", "e">>

\* __FUNCSIG__ inside userdata_type_name<T>: the return type, the qualified
\* name, the template argument and the parameter list
FUNCSIG(T) ==
    <<"s", "v", "<", "c", ">", " ", "l", "u", "a", ":", ":">>
        \o function_name_v \o <<"<">> \o TypeChars(T)
        \o <<">", "(", "v", "o", "i", "d", ")">>

\* std::string_view::rfind(char), find(char), find(string_view), substr,
\* with positions counted from 0; npos is -1
rfind(a, c) ==
    IF \E i \in 1..Len(a) : a[i] = c
    THEN (CHOOSE i \in 1..Len(a) :
             a[i] = c /\ \A j \in (i + 1)..Len(a) : a[j] # c) - 1
    ELSE -1
find_char(a, c) ==
    IF \E i \in 1..Len(a) : a[i] = c
    THEN (CHOOSE i \in 1..Len(a) :
             a[i] = c /\ \A j \in 1..(i - 1) : a[j] # c) - 1
    ELSE -1
Occurs(a, sub, i) ==
    /\ i + Len(sub) - 1 <= Len(a)
    /\ \A k \in 1..Len(sub) : a[i + k - 1] = sub[k]
find(a, sub) ==
    IF \E i \in 1..Len(a) : Occurs(a, sub, i)
    THEN (CHOOSE i \in 1..Len(a) :
             Occurs(a, sub, i) /\ \A j \in 1..(i - 1) : ~Occurs(a, sub, j)) - 1
    ELSE -1
substr(a, pos, count) ==
    SubSeq(a, pos + 1, IF pos + count > Len(a) THEN Len(a) ELSE pos + count)

\* userdata_type_name<T>()
userdata_type_name(T) ==
    LET a0 == FUNCSIG(T)
        a1 == substr(a0, 0, rfind(a0, ">"))
        p1 == find(a1, function_name_v) + Len(function_name_v)
        a2 == substr(a1, p1, Len(a1) - p1)
        p2 == find_char(a2, "<") + 1
    IN  substr(a2, p2, Len(a2) - p2)

\* the names newuserdata<T> registers descriptors under
RegKeys == {userdata_type_name(T) : T \in HostTypes}

\* luaL_newmetatable: 0 and the registered value when the registry has the
\* name; otherwise a new table with __name, registered under the name, and 1.
\* The table is left on the stack either way.
luaL_newmetatable(reg, mts, tname) ==
    IF reg[tname] # 0
    THEN [ret |-> 0, mt |-> reg[tname], reg |-> reg, mts |-> mts]
    ELSE [ret |-> 1, mt |-> Len(mts) + 1,
          reg |-> [reg EXCEPT ![tname] = Len(mts) + 1],
          mts |-> Append(mts, [name |-> tname, gc |-> "none"])]

\* if (luaL_newmetatable(...) != 0): the descriptor is new and gets its __gc
descriptor_is_newMut(ret) == TRUE
descriptor_is_new(ret) == ret # 0

\* newuserdata<T>(_lua): the block is pushed; when T is not trivially
\* destructible its descriptor is found or created and attached
\* (lua_setmetatable marks the block for finalization when the table has
\* __gc at that moment); when T is not trivially constructible the value is
\* constructed in the block
newuserdata(T) ==
    /\ Len(uds) < MaxUd
    /\ Len(stack) < MaxStack
    /\ stack' = push(stack, LuaUserdata(Len(uds) + 1))
    /\ stack0' = stack
    /\ IF ~is_trivially_destructible(T)
       THEN LET r == luaL_newmetatable(registry, meta, userdata_type_name(T))
                fresh == descriptor_is_new(r.ret)
                mts == IF fresh THEN [r.mts EXCEPT ![r.mt].gc = T] ELSE r.mts
            IN  /\ registry' = r.reg
                /\ meta' = mts
                /\ created' = [created EXCEPT ![T] = @ + r.ret]
                /\ gcSet' = [gcSet EXCEPT ![T] = @ + IF fresh THEN 1 ELSE 0]
                /\ uds' = Append(uds,
                      [type |-> T, mt |-> r.mt, fin |-> mts[r.mt].gc # "none",
                       constructed |-> ~is_trivially_constructible(T),
                       dtors |-> 0, state |-> "live"])
       ELSE /\ uds' = Append(uds,
                      [type |-> T, mt |-> 0, fin |-> FALSE,
                       constructed |-> ~is_trivially_constructible(T),
                       dtors |-> 0, state |-> "live"])
            /\ UNCHANGED <<registry, meta, created, gcSet>>
    /\ UNCHANGED heap

call_newuserdata ==
    /\ \E T \in HostTypes : newuserdata(T)
    /\ FrameUd

\* the block is reachable while a stack slot holds it
Reachable(u) == \E i \in 1..Len(stack) : stack[i] = LuaUserdata(u)

\* the host drops the top of the stack
ud_pop ==
    /\ Len(stack) > 0
    /\ stack' = pop(stack, 1)
    /\ stack0' = stack
    /\ UNCHANGED <<heap, udVars>>
    /\ FrameUd

\* the collector calls the __gc of an unreachable block marked for
\* finalization: the lambda of newuserdata<gc> runs std::destroy_at on it
gc_finalize ==
    \E u \in 1..Len(uds) :
        /\ ~Reachable(u)
        /\ uds[u].state = "live"
        /\ uds[u].fin
        /\ uds' = [uds EXCEPT ![u].state = "finalized",
                              ![u].dtors = @ + IF meta[uds[u].mt].gc = uds[u].type
                                               THEN 1 ELSE 0]
        /\ UNCHANGED <<luaVars, stack0, registry, meta, created, gcSet>>
    /\ FrameUd

\* the collector releases the memory of an unreachable block that has no
\* finalizer left to run
gc_free ==
    \E u \in 1..Len(uds) :
        /\ ~Reachable(u)
        /\ \/ uds[u].state = "finalized"
           \/ uds[u].state = "live" /\ ~uds[u].fin
        /\ uds' = [uds EXCEPT ![u].state = "freed"]
        /\ UNCHANGED <<luaVars, stack0, registry, meta, created, gcSet>>
    /\ FrameUd

\* other code of the host registers a metatable of its own under a name, with
\* luaL_newmetatable, and pops it
host_newmetatable ==
    \E name \in RegKeys :
        LET r == luaL_newmetatable(registry, meta, name)
        IN  /\ r.ret = 1
            /\ registry' = r.reg
            /\ meta' = r.mts
            /\ UNCHANGED <<luaVars, stack0, uds, created, gcSet>>
    /\ FrameUd

IdleUd ==
    /\ registry = [k \in RegKeys |-> 0]
    /\ meta = <<>>
    /\ uds = <<>>
    /\ created = [T \in HostTypes |-> 0]
    /\ gcSet = [T \in HostTypes |-> 0]

----------------------------------------------------------------------------
(* The stack_traits registry: push, to, pull *)

\* the host types with a registry entry
IntegralTypes == {"signed char", "short", "int", "long long"}
FloatingTypes == {"float", "double", "long double"}

\* the width of a signed integral type
IntBits(T) ==
    CASE T = "signed char" -> 8
      [] T = "short" -> 16
      [] T = "int" -> 32
      [] T = "long long" -> LuaIntegerBits

\* the format of a floating-point type; the library is built with a compiler
\* that defines __FUNCSIG__, where long double has the format of double
FloatFormat(T) == IF T = "float" THEN Binary32 ELSE Binary64

\* lua_Number is double
LuaNumberFormat == Binary64

\* a host value: its type t and, as for Lua values, the payloads n, s, f;
\* a pointer is null when n = 0
HostValue(T, n, s, f) == [t |-> T, n |-> n, s |-> s, f |-> f]

\* the bytes of a C string: those before the first zero byte
CBytes(bytes) ==
    IF \E i \in 1..Len(bytes) : bytes[i] = 0
    THEN SubSeq(bytes, 1, (CHOOSE i \in 1..Len(bytes) :
                              bytes[i] = 0 /\ \A j \in 1..(i - 1) : bytes[j] # 0) - 1)
    ELSE bytes

\* lua_tointeger of an integer, or of a value that is no number at all
lua_tointeger(s, idx) ==
    LET v == s[abs(s, idx)]
    IN  IF v.t = "integer" THEN v.s ELSE FromInt(0, LuaIntegerBits)

\* lua_tonumber of a float, or of a value that is no number at all
lua_tonumber(s, idx) ==
    LET v == s[abs(s, idx)]
    IN  IF v.t = "number" THEN v.f ELSE FloatZero

\* lua_toboolean: false for nil and false, true for every other value
lua_toboolean(s, idx) ==
    LET v == s[abs(s, idx)]
    IN  IF v.t = "nil" \/ (v.t = "boolean" /\ v.n = 0) THEN 0 ELSE 1

\* lua_tolstring of a value that is no number: the bytes and their count, or
\* a null pointer and 0
lua_tolstring(s, idx) ==
    LET v == s[abs(s, idx)]
    IN  IF v.t = "string" THEN [ptr |-> 1, bytes |-> v.s]
        ELSE [ptr |-> 0, bytes |-> <<>>]

\* lua_tocfunction: the C function of a C function or C closure, else null
lua_tocfunction(s, idx) ==
    LET v == s[abs(s, idx)]
    IN  IF v.t = "function" THEN v.n ELSE 0

\* lua_pushstring: nil for a null pointer, else the bytes up to the zero
lua_pushstring(s, ptr, bytes) ==
    IF ptr = 0 THEN push(s, LuaNil) ELSE push(s, LuaString(CBytes(bytes)))

\* lua_pushlstring: len bytes
lua_pushlstring(s, bytes) == push(s, LuaString(bytes))

\* lua_pushcclosure: the n values on top become the upvalues of the closure
\* and are popped; the closure is pushed
lua_pushcclosure(s, fn, n) ==
    push(pop(s, n),
         [t |-> "function", n |-> fn,
          s |-> IF n = 0 THEN <<>> ELSE <<n>>, f |-> FloatZero])

\* stack_traits<T>::push for the integral types: lua_pushinteger of the
\* value cast to lua_Integer
traits_push_integral(s, x) ==
    push(s, LuaInteger(SignedCast(x.s, LuaIntegerBits)))

\* stack_traits<T>::to for the integral types: lua_tointeger, cast to T
traits_to_integralMut(s, idx, T) ==
    HostValue(T, 0, SignedCast(SignedCast(lua_tointeger(s, idx), 32), IntBits(T)),
              FloatZero)
traits_to_integral(s, idx, T) ==
    HostValue(T, 0, SignedCast(lua_tointeger(s, idx), IntBits(T)), FloatZero)

\* stack_traits<T>::push for the floating-point types: the values
\* lua_pushnumber may push for the value cast to lua_Number
traits_push_floating(s, x) ==
    {push(s, LuaNumber(y)) : y \in FloatCast(x.f, LuaNumberFormat)}

\* stack_traits<T>::to for the floating-point types: lua_tonumber, cast to T
traits_to_floating(s, idx, T) ==
    {HostValue(T, 0, <<>>, y) : y \in FloatCast(lua_tonumber(s, idx), FloatFormat(T))}

\* stack_traits<bool>
traits_push_bool(s, x) == push(s, LuaBoolean(x.n # 0))
traits_to_bool(s, idx) == HostValue("bool", lua_toboolean(s, idx), <<>>, FloatZero)

\* stack_traits<nil_t>::push, stack_traits<fail_t>::push (luaL_pushfail
\* pushes nil)
traits_push_nil(s) == push(s, LuaNil)
traits_push_fail(s) == push(s, LuaNil)

\* stack_traits<const char*>
traits_push_cstring(s, x) == lua_pushstring(s, x.n, x.s)
traits_to_cstring(s, idx) ==
    LET r == lua_tolstring(s, idx)
    IN  HostValue("const char*", r.ptr, CBytes(r.bytes), FloatZero)

\* stack_traits<std::string_view>
traits_push_string_view(s, x) == lua_pushlstring(s, x.s)
traits_to_string_view(s, idx) ==
    HostValue("string_view", 0, lua_tolstring(s, idx).bytes, FloatZero)

\* push(state*, const std::string&): forwards c_str() and size() to
\* push(state*, const char*, size_t), which is lua_pushlstring
push_string_overload(s, x) == lua_pushlstring(s, x.s)

\* stack_traits<std::basic_string>: push is lua_pushstring of c_str(), to
\* assigns the const char* of lua_tostring
traits_push_string(s, x) == lua_pushstring(s, 1, x.s)
traits_to_string(s, idx) ==
    HostValue("string", 0, CBytes(lua_tolstring(s, idx).bytes), FloatZero)

\* stack_traits<lua_CFunction>
traits_push_cfunction(s, x) == lua_pushcclosure(s, x.n, 0)
traits_push_cclosureMut(s, x, upvalues) == lua_pushcclosure(s, x.n, 0)
traits_push_cclosure(s, x, upvalues) == lua_pushcclosure(s, x.n, upvalues)
traits_to_cfunction(s, idx) ==
    HostValue("lua_CFunction", lua_tocfunction(s, idx), <<>>, FloatZero)

\* the values of the integral type T the host pushes
IntegralValues(T) ==
    {HostValue(T, 0, b, FloatZero) :
        b \in {FromInt(0, IntBits(T)), FromInt(42, IntBits(T)),
               FromInt(-1, IntBits(T)), IntMin(IntBits(T)), IntMax(IntBits(T))}}

\* the values of a format: zeros, 42, a value with every fraction bit in
\* use, the greatest and the least finite value, the least normal and the
\* least subnormal magnitude, the infinities and a NaN
FormatValues(fmt) ==
    {FloatSpecial("zero", FALSE), FloatSpecial("zero", TRUE),
     FloatFinite(FALSE, 5, <<0, 1, 0, 1>>),
     FloatFinite(FALSE, -2, [i \in 1..(fmt.p - 1) |-> i % 2]),
     FloatMax(FALSE, fmt), FloatMax(TRUE, fmt),
     FloatFinite(FALSE, fmt.emin, <<>>),
     FloatFinite(FALSE, fmt.emin - (fmt.p - 1), <<>>),
     FloatSpecial("inf", FALSE), FloatSpecial("inf", TRUE),
     FloatSpecial("nan", FALSE)}

FloatingValues(T) ==
    {HostValue(T, 0, <<>>, y) : y \in FormatValues(FloatFormat(T))}

\* the texts of at most MaxStrLen bytes over a zero byte and a letter
Texts == UNION {[1..n -> {0, 97}] : n \in 0..MaxStrLen}

\* the C strings the host passes: a null pointer, or the address of bytes
\* that a zero byte follows
CStrings ==
    {HostValue("const char*", 0, <<>>, FloatZero)}
        \cup {HostValue("const char*", 1, CBytes(b), FloatZero) : b \in Texts}

\* the slots the host fills before it marshals, bottom first
BaseSlots(i) ==
    IF i % 3 = 1 THEN LuaNil ELSE IF i % 3 = 2 THEN LuaBoolean(TRUE) ELSE LuaInt(1)

NoOp == [kind |-> "none", ty |-> "", idx |-> 0, val |-> HostValue("", 0, <<>>, FloatZero)]

\* what a push and a to leave in the state
DoPush(newStack, T, extra, x) ==
    /\ op.kind = "none"
    /\ stack' = newStack
    /\ stack0' = stack
    /\ prev' = op
    /\ op' = [kind |-> "push", ty |-> T, idx |-> extra, val |-> x]
    /\ UNCHANGED heap

DoTo(idx, T, v) ==
    /\ op.kind # "to"
    /\ stack0' = stack
    /\ prev' = op
    /\ op' = [kind |-> "to", ty |-> T, idx |-> idx, val |-> v]
    /\ UNCHANGED <<stack, heap>>

\* the indices of the two slots on top, counted from the bottom and from the top
TopIndices(s) ==
    {i \in {Len(s), Len(s) - 1, -1, -2} : abs(s, i) \in 1..Len(s)}

\* push(_lua, x)
push_integral ==
    /\ \E T \in IntegralTypes : \E x \in IntegralValues(T) :
          DoPush(traits_push_integral(stack, x), T, 0, x)
    /\ FramePush

push_floating ==
    /\ \E T \in FloatingTypes : \E x \in FloatingValues(T) :
          \E st \in traits_push_floating(stack, x) : DoPush(st, T, 0, x)
    /\ FramePush

push_bool ==
    /\ \E b \in {0, 1} :
          LET x == HostValue("bool", b, <<>>, FloatZero)
          IN  DoPush(traits_push_bool(stack, x), "bool", 0, x)
    /\ FramePush

push_nil ==
    /\ DoPush(traits_push_nil(stack), "nil_t", 0, NoOp.val)
    /\ FramePush

push_fail ==
    /\ DoPush(traits_push_fail(stack), "fail_t", 0, NoOp.val)
    /\ FramePush

push_cstring ==
    /\ \E x \in CStrings :
          DoPush(traits_push_cstring(stack, x), "const char*", 0, x)
    /\ FramePush

push_string_view ==
    /\ \E b \in Texts :
          LET x == HostValue("string_view", 0, b, FloatZero)
          IN  DoPush(traits_push_string_view(stack, x), "string_view", 0, x)
    /\ FramePush

push_string ==
    /\ \E b \in Texts :
          LET x == HostValue("string", 0, b, FloatZero)
          IN  DoPush(traits_push_string(stack, x), "string", 0, x)
    /\ FramePush

push_cfunction ==
    /\ LET x == HostValue("lua_CFunction", 1, <<>>, FloatZero)
       IN  DoPush(traits_push_cfunction(stack, x), "lua_CFunction", 0, x)
    /\ FramePush

\* push(_lua, fn, n) with n of the slots on the stack as upvalues
push_cclosure ==
    /\ \E n \in 0..Len(stack) :
          LET x == HostValue("lua_CFunction", 1, <<>>, FloatZero)
          IN  DoPush(traits_push_cclosure(stack, x, n), "lua_CFunction", n, x)
    /\ FramePush

\* to(_lua, idx, v) and pull<T>(_lua, idx), on a slot that holds a value the
\* entry reads without converting it
to_integral ==
    /\ \E idx \in TopIndices(stack) : \E T \in IntegralTypes :
          /\ stack[abs(stack, idx)].t # "number"
          /\ stack[abs(stack, idx)].t # "string"
          /\ DoTo(idx, T, traits_to_integral(stack, idx, T))
    /\ FramePush

to_floating ==
    /\ \E idx \in TopIndices(stack) : \E T \in FloatingTypes :
          /\ stack[abs(stack, idx)].t # "integer"
          /\ stack[abs(stack, idx)].t # "string"
          /\ \E v \in traits_to_floating(stack, idx, T) : DoTo(idx, T, v)
    /\ FramePush

to_bool ==
    /\ \E idx \in TopIndices(stack) :
          DoTo(idx, "bool", traits_to_bool(stack, idx))
    /\ FramePush

to_cstring ==
    /\ \E idx \in TopIndices(stack) :
          /\ stack[abs(stack, idx)].t \notin {"number", "integer"}
          /\ DoTo(idx, "const char*", traits_to_cstring(stack, idx))
    /\ FramePush

to_string_view ==
    /\ \E idx \in TopIndices(stack) :
          /\ stack[abs(stack, idx)].t \notin {"number", "integer"}
          /\ DoTo(idx, "string_view", traits_to_string_view(stack, idx))
    /\ FramePush

to_string ==
    /\ \E idx \in TopIndices(stack) :
          /\ stack[abs(stack, idx)].t = "string"
          /\ DoTo(idx, "string", traits_to_string(stack, idx))
    /\ FramePush

to_cfunction ==
    /\ \E idx \in TopIndices(stack) :
          DoTo(idx, "lua_CFunction", traits_to_cfunction(stack, idx))
    /\ FramePush

\* the host fills the next slot of its own
marshal_fill ==
    /\ op.kind = "none"
    /\ Len(stack) < MaxStack
    /\ stack' = push(stack, BaseSlots(Len(stack) + 1))
    /\ stack0' = stack
    /\ UNCHANGED <<heap, op, prev>>
    /\ FramePush

\* the host pops the value it marshalled
marshal_pop ==
    /\ op.kind # "none"
    /\ Len(stack) > 0
    /\ stack' = pop(stack, 1)
    /\ stack0' = stack
    /\ op' = NoOp
    /\ prev' = NoOp
    /\ UNCHANGED heap
    /\ FramePush

IdlePush ==
    /\ op = NoOp
    /\ prev = NoOp

----------------------------------------------------------------------------
(* is_pushable, is_pullable: the capability queries over stack_traits *)

\* a type argument T: the type without qualifiers, const, and the reference
TypeArg(b, c, r) == [base |-> b, const |-> c, ref |-> r]

\* std::remove_cvref_t<T>
remove_cvref(T) == T.base

\* std::is_integral, std::is_floating_point
is_integral(b) ==
    b \in {"bool", "char", "signed char", "unsigned char", "short", "int",
           "unsigned int", "long", "long long"}
is_floating_point(b) == b \in {"float", "double", "long double"}

\* the explicit specializations of stack_traits, with the extra parameters
\* of every push and every to overload they declare
ExplicitTraits ==
    [b \in {"long long", "double", "nil_t", "bool", "const char*",
            "string_view", "lua_CFunction", "fail_t"} |->
        CASE b = "nil_t" -> [push |-> {<<>>}, to |-> {}]
          [] b = "fail_t" -> [push |-> {<<>>}, to |-> {}]
          [] b = "lua_CFunction" -> [push |-> {<<>>, <<"int">>}, to |-> {<<>>}]
          [] OTHER -> [push |-> {<<>>}, to |-> {<<>>}]]

\* the primary template is declared and never defined: it has no members
PrimaryTraits == [push |-> {}, to |-> {}]

\* stack_traits<b>: an explicit specialization, else the partial one for
\* basic_string, for the integral or for the floating-point types, else the
\* primary template
stack_traits_noint(b) ==
    IF b \in DOMAIN ExplicitTraits THEN ExplicitTraits[b]
    ELSE IF b = "string" \/ is_floating_point(b)
         THEN [push |-> {<<>>}, to |-> {<<>>}]
         ELSE PrimaryTraits
stack_traits(b) ==
    IF b \in DOMAIN ExplicitTraits THEN ExplicitTraits[b]
    ELSE IF b = "string" \/ is_integral(b) \/ is_floating_point(b)
         THEN [push |-> {<<>>}, to |-> {<<>>}]
         ELSE PrimaryTraits

\* an argument of type a can be passed for a parameter of type prm
Convertible(a, prm) ==
    \/ a = prm
    \/ (is_integral(a) \/ is_floating_point(a))
          /\ (is_integral(prm) \/ is_floating_point(prm))

\* overload resolution finds an overload for the extra arguments
Accepts(overloads, extras) ==
    \E ov \in overloads :
        /\ Len(ov) = Len(extras)
        /\ \A i \in 1..Len(ov) : Convertible(extras[i], ov[i])

\* stack_traits<remove_cvref_t<T>>::push(state_ptr, declval<T>(), declval<Ts>()...)
\* is well formed: the value binds to const type& whatever T's qualifiers
PushWellFormed(T, extras) ==
    Accepts(stack_traits(remove_cvref(T)).push, extras)

\* stack_traits<remove_cvref_t<T>>::to(state_ptr, int, declval<remove_reference_t<T>&>(), ...)
\* is well formed: type& does not bind to a const object
ToWellFormed(T, extras) ==
    /\ ~T.const
    /\ Accepts(stack_traits(remove_cvref(T)).to, extras)

\* impl::is_pushable_args: the partial specialization when the call is well
\* formed, else the primary template (false_type)
is_pushable_args(T, extras) ==
    IF PushWellFormed(T, extras) THEN TRUE ELSE FALSE

\* impl::is_pullable_args: the partial specialization for an empty argument
\* list, the one for any argument list, else the primary template
is_pullable_args(T, extras) ==
    IF extras = <<>> /\ ToWellFormed(T, <<>>) THEN TRUE
    ELSE IF ToWellFormed(T, extras) THEN TRUE
    ELSE FALSE

\* is_pushable<T, ExtraArgs...>::value, is_pullable<T, ExtraArgs...>::value
is_pushable(T, extras) == is_pushable_args(T, extras)
is_pullable(T, extras) == is_pullable_args(T, extras)

\* the types the host asks about: the built-in ones, a class and an
\* enumeration without a registry entry, and pointers without one
BuiltinTypes ==
    {"bool", "signed char", "unsigned char", "short", "int", "long",
     "long long", "float", "double", "long double", "nil_t", "fail_t",
     "const char*", "string_view", "string", "lua_CFunction"}
UnregisteredTypes == {"Unreg", "Enum", "void*", "char*"}
QueryTypes ==
    {TypeArg(b, c, r) :
        b \in BuiltinTypes \cup UnregisteredTypes,
        c \in BOOLEAN, r \in {"none", "lvalue"}}

\* the extra argument lists the host asks about
ExtraLists == UNION {[1..n -> {"int", "Unreg"}] : n \in 0..MaxExtras}

NoQuery == [trait |-> "none", T |-> TypeArg("", FALSE, "none"),
            extras |-> <<>>, value |-> FALSE]

\* the host evaluates is_pushable_v<T, ExtraArgs...>
ask_pushable ==
    /\ \E T \in QueryTypes, extras \in ExtraLists :
          query' = [trait |-> "is_pushable", T |-> T, extras |-> extras,
                    value |-> is_pushable(T, extras)]
    /\ FrameTraits

\* the host evaluates is_pullable_v<T, ExtraArgs...>
ask_pullable ==
    /\ \E T \in QueryTypes, extras \in ExtraLists :
          query' = [trait |-> "is_pullable", T |-> T, extras |-> extras,
                    value |-> is_pullable(T, extras)]
    /\ FrameTraits

----------------------------------------------------------------------------
(* status_code and resume_result *)

\* enum class status_code : int, with the values of lua.h and lauxlib.h
status_ok == 0
status_yield == 1
status_err_run == 2
status_err_syntax == 3
status_err_mem == 4
status_err_err == 5
status_err_file == 6

\* the values of the enumeration
StatusCodes ==
    {status_ok, status_yield, status_err_err, status_err_file,
     status_err_mem, status_err_syntax, status_err_run}

\* resume_result(status_code _status, int _nrets)
resume_result(_status, _nrets) ==
    [status_ |-> _status, nrets_ |-> _nrets, asked |-> FALSE, answer |-> FALSE]

\* resume_result::status, resume_result::nrets
status(r) == r.status_
nrets(r) == r.nrets_

\* resume_result::is_error
is_errorMut(r) ==
    LET _status == status(r)
    IN  _status # status_ok
is_error(r) ==
    LET _status == status(r)
    IN  _status # status_ok /\ _status # status_yield

\* resume returns resume_result{ status_code(_status), _nrets }
resume ==
    /\ \E st \in StatusCodes, n \in 0..MaxRets :
          result' = resume_result(st, n)
    /\ FrameResult

\* the host calls is_error() on the result
call_is_error ==
    /\ ~result.asked
    /\ result' = [result EXCEPT !.asked = TRUE, !.answer = is_error(result)]
    /\ FrameResult

----------------------------------------------------------------------------
(* rawget, rawset, get_or_create_table *)

\* a light userdata, the key of lua_rawgetp and lua_rawsetp
LuaLightUserdata(ptr) ==
    [t |-> "lightuserdata", n |-> ptr, s |-> <<>>, f |-> FloatZero]

\* the stack s and the heap h an operation works on; undef is set, and fault
\* holds the stack of that moment, once an operation was handed a slot that
\* holds no table as its table
LuaState(s, h) == [s |-> s, h |-> h, undef |-> FALSE, fault |-> <<>>]

\* the value under key k in the table contents t, nil when there is none
RawValue(t, k) == IF KeyPos(t, k) = 0 THEN LuaNil ELSE t[KeyPos(t, k)][2]

\* the table contents t with v stored under key k
RawStore(t, k, v) ==
    IF KeyPos(t, k) = 0 THEN Append(t, <<k, v>>)
    ELSE [t EXCEPT ![KeyPos(t, k)][2] = v]

\* an operation on a slot that holds no table
Undefined(st, s1) == [st EXCEPT !.undef = TRUE, !.fault = st.s, !.s = s1]

\* lua_rawgetp, lua_rawgeti: pushes t[k] for the table t at the index
lua_rawget_key(st, index, k) ==
    LET tv == st.s[abs(st.s, index)]
    IN  IF tv.t # "table" THEN Undefined(st, push(st.s, LuaNil))
        ELSE [st EXCEPT !.s = push(st.s, RawValue(st.h[tv.n], k))]

\* lua_rawget: pops the key on top and pushes t[key]
lua_rawget(st, index) ==
    LET tv == st.s[abs(st.s, index)]
        k == st.s[top(st.s)]
        rest == pop(st.s, 1)
    IN  IF tv.t # "table" THEN Undefined(st, push(rest, LuaNil))
        ELSE [st EXCEPT !.s = push(rest, RawValue(st.h[tv.n], k))]

\* lua_rawsetp, lua_rawseti: t[k] = the value on top, which is popped
lua_rawset_key(st, index, k) ==
    LET tv == st.s[abs(st.s, index)]
        v == st.s[top(st.s)]
    IN  IF tv.t # "table" THEN Undefined(st, pop(st.s, 1))
        ELSE [st EXCEPT !.h[tv.n] = RawStore(@, k, v), !.s = pop(st.s, 1)]

\* lua_rawset: t[key] = value for the value on top and the key below it;
\* both are popped
lua_rawset(st, index) ==
    LET tv == st.s[abs(st.s, index)]
        v == st.s[top(st.s)]
        k == st.s[top(st.s) - 1]
    IN  IF tv.t # "table" THEN Undefined(st, pop(st.s, 2))
        ELSE [st EXCEPT !.h[tv.n] = RawStore(@, k, v), !.s = pop(st.s, 2)]

\* newtable(_lua): lua_createtable pushes a new empty table
newtable(st) ==
    [st EXCEPT !.h = Append(@, <<>>), !.s = push(st.s, LuaTable(Len(st.h) + 1))]

\* type_of(_lua, -1), the value rawget returns
type_of_top(st) == st.s[top(st.s)].t

\* rawget(_lua, _index, lua_Integer) and rawget(_lua, _index, void*)
rawget_key(st, _index, _key) == lua_rawget_key(st, _index, _key)

\* rawget(_lua, _index, const char*): abs, push key, lua_rawget
rawget_cstr(st, _index, _key) ==
    LET i == abs(st.s, _index)
        st1 == [st EXCEPT !.s = lua_pushstring(st.s, 1, _key)]
    IN  lua_rawget(st1, i)

\* rawset(_lua, _index, lua_Integer) and rawset(_lua, _index, void*)
rawset_key(st, _index, _key) == lua_rawset_key(st, _index, _key)

\* rawset(_lua, _index, const char*): abs, push key, copy value, lua_rawset,
\* pop
rawset_cstr(st, _index, _key) ==
    LET i == abs(st.s, _index)
        _valueIndex == abs(st.s, -1)
        st1 == [st EXCEPT !.s = lua_pushstring(st.s, 1, _key)]
        st2 == [st1 EXCEPT !.s = copy(st1.s, _valueIndex)]
        st3 == lua_rawset(st2, i)
    IN  [st3 EXCEPT !.s = pop(st3.s, 1)]

\* pop; newtable; copy(-1): what the three overloads do before they store
fresh_table(st) ==
    LET st1 == [st EXCEPT !.s = pop(st.s, 1)]
        st2 == newtable(st1)
    IN  [st2 EXCEPT !.s = copy(st2.s, -1)]

\* get_or_create_table(_lua, _tableIndex, void*) and (_lua, _tableIndex, int):
\* _tableIndex is used as it was passed, before and after the pushes
get_or_create_table_key(st, _tableIndex, _key) ==
    LET st1 == rawget_key(st, _tableIndex, _key)
    IN  IF type_of_top(st1) # "table"
        THEN rawset_key(fresh_table(st1), _tableIndex, _key)
        ELSE st1

\* get_or_create_table(_lua, _tableIndex, const char*): _tableIndex is made
\* absolute first
get_or_create_table_cstr(st, _tableIndex, _key) ==
    LET i == abs(st.s, _tableIndex)
        st1 == rawget_cstr(st, i, _key)
    IN  IF type_of_top(st1) # "table"
        THEN rawset_cstr(fresh_table(st1), i, _key)
        ELSE st1

\* the keys the host passes, as the values the runtime looks up
KeyOf(overload, k) ==
    CASE overload = "void*" -> LuaLightUserdata(k)
      [] overload = "int" -> LuaInt(k)
      [] overload = "const char*" -> LuaString(<<96 + k>>)

NoTableCall ==
    [called |-> FALSE, overload |-> "", index |-> 0, key |-> LuaNil,
     target |-> 0, undef |-> FALSE]

\* the indices of stack s that address a table, counted from the bottom and
\* from the top
TableIndices(s) ==
    {i \in (1..Len(s)) \cup ((-Len(s))..(-1)) : s[abs(s, i)].t = "table"}

\* what a call leaves in the state; after an operation on a slot without a
\* table the program has stopped there or has gone on
DoTableCall(r, overload, index, k) ==
    /\ stack' \in (IF r.undef THEN {r.s, r.fault} ELSE {r.s})
    /\ heap' = r.h
    /\ stack0' = stack
    /\ heap0' = heap
    /\ goc' = [called |-> TRUE, overload |-> overload, index |-> index,
               key |-> k, target |-> stack[abs(stack, index)].n,
               undef |-> r.undef]

\* the host calls get_or_create_table(_lua, index, key) on a table
call_get_or_create_table_key ==
    /\ Len(stack) < MaxStack
    /\ Len(heap) < MaxTables
    /\ \E overload \in {"void*", "int"}, index \in TableIndices(stack),
          k \in 1..2 :
          DoTableCall(get_or_create_table_key(LuaState(stack, heap), index,
                                              KeyOf(overload, k)),
                      overload, index, KeyOf(overload, k))
    /\ FrameTable

call_get_or_create_table_cstr ==
    /\ Len(stack) < MaxStack
    /\ Len(heap) < MaxTables
    /\ \E index \in TableIndices(stack), k \in 1..2 :
          DoTableCall(get_or_create_table_cstr(LuaState(stack, heap), index,
                                               <<96 + k>>),
                      "const char*", index, KeyOf("const char*", k))
    /\ FrameTable

\* the host pushes one of its tables or a number, and pops
table_push ==
    /\ Len(stack) < MaxStack
    /\ \E v \in {LuaTable(1), LuaTable(2), LuaInt(7)} : stack' = push(stack, v)
    /\ stack0' = stack
    /\ goc' = NoTableCall
    /\ UNCHANGED <<heap, heap0>>
    /\ FrameTable

table_pop ==
    /\ Len(stack) > 0
    /\ stack' = pop(stack, 1)
    /\ stack0' = stack
    /\ goc' = NoTableCall
    /\ UNCHANGED <<heap, heap0>>
    /\ FrameTable

IdleExt ==
    /\ query = NoQuery
    /\ result = resume_result(status_ok, 0)
    /\ goc = NoTableCall
    /\ heap0 = <<>>

----------------------------------------------------------------------------
(* loadfile and its reader *)

\* std::array<char, 128> buffer_
BufferSize == 128

\* the first byte of a precompiled chunk, LUA_SIGNATURE[0]
IsBinaryChunk(chunk) == Len(chunk) > 0 /\ chunk[1] = 27

\* a file on disk: its bytes, and whether opening it fails ("open") or the
\* device fails at offset limit ("read"); pos and good are the state of the
\* std::ifstream on it
File(bytes, fault, limit) ==
    [bytes |-> bytes, fault |-> fault, limit |-> limit, pos |-> 0,
     good |-> FALSE]

\* the number of bytes the device hands out
Readable(f) == IF f.fault = "read" THEN f.limit ELSE Len(f.bytes)

\* std::ifstream(_filepath, _openmode): failbit is set when the file cannot
\* be opened
ifstream_open(f) == [f EXCEPT !.pos = 0, !.good = (f.fault # "open")]

\* _file.read(_buffer.data(), n): extracts up to n bytes, fewer when the end
\* of the file or a device error comes first, and then sets failbit;
\* gcount() is the number extracted
ifstream_read(f, n) ==
    LET avail == IF f.good THEN Readable(f) - f.pos ELSE 0
        k == IF avail < n THEN avail ELSE n
    IN  [file |-> [f EXCEPT !.pos = f.pos + k, !.good = (f.good /\ k = n)],
         gcount |-> k,
         data |-> SubSeq(f.bytes, f.pos + 1, f.pos + k)]

\* reader_data::read with the state of the stream tested after the read
readMut(f) ==
    LET r == ifstream_read(f, BufferSize)
    IN  IF r.file.good
        THEN [file |-> r.file, outCount |-> r.gcount, ptr |-> 1, chunk |-> r.data]
        ELSE [file |-> r.file, outCount |-> 0, ptr |-> 0, chunk |-> <<>>]

\* reader_data::read(_outCount): a buffer of the file when the stream is
\* good, else count 0 and nullptr
read(f) ==
    IF f.good
    THEN LET r == ifstream_read(f, BufferSize)
         IN  [file |-> r.file, outCount |-> r.gcount, ptr |-> 1, chunk |-> r.data]
    ELSE [file |-> f, outCount |-> 0, ptr |-> 0, chunk |-> <<>>]

\* _readerFn: forwards to read
readerFn(f) == read(f)

NoReader == [sizes |-> <<>>, ptrs |-> <<>>, delivered |-> <<>>]
NoLoad == [pc |-> "idle", mode |-> "", status |-> status_ok]

\* load_mode and impl::load_mode_str
LoadModes == {"bt", "b", "t"}

\* the statuses lua_load can return for a chunk: one whose kind the mode does
\* not allow is refused, the empty chunk compiles, any other chunk compiles or
\* has a syntax error; a chunk the parser gave up on before its end has one
lua_load(chunk, mode, complete) ==
    LET allowed == IF IsBinaryChunk(chunk) THEN mode \in {"bt", "b"}
                   ELSE mode \in {"bt", "t"}
    IN  IF ~allowed \/ ~complete THEN {status_err_syntax}
        ELSE IF chunk = <<>> THEN {status_ok}
        ELSE {status_ok, status_err_syntax}

\* what lua_load pushes: the compiled chunk, or the error message
LoadedValue(st) == IF st = status_ok THEN LuaFunction(1) ELSE LuaString(<<101>>)

\* loadfile up to the call of load: auto _data = reader_data(_path, binary)
loadfile_begin ==
    /\ ld.pc = "idle"
    /\ \E _mode \in LoadModes :
          ld' = [pc |-> "loading", mode |-> _mode, status |-> status_ok]
    /\ file' = ifstream_open(file)
    /\ rd' = NoReader
    /\ UNCHANGED <<stack, stack0>>
    /\ FrameLoad

\* lua_load calls _readerFn once
reader_call ==
    /\ ld.pc = "loading"
    /\ Len(rd.sizes) < MaxReads
    /\ LET r == readerFn(file)
       IN  /\ file' = r.file
           /\ rd' = [sizes |-> Append(rd.sizes, r.outCount),
                     ptrs |-> Append(rd.ptrs, r.ptr),
                     delivered |-> rd.delivered \o r.chunk]
    /\ UNCHANGED <<stack, stack0, ld>>
    /\ FrameLoad

\* lua_load returns, after the end of the input or after a syntax error
\* before it, and loadfile returns its status
loadfile_end ==
    /\ ld.pc = "loading"
    /\ Len(rd.sizes) > 0
    /\ \E st \in lua_load(rd.delivered, ld.mode, rd.sizes[Len(rd.sizes)] = 0) :
          /\ ld' = [ld EXCEPT !.pc = "done", !.status = st]
          /\ stack' = push(stack, LoadedValue(st))
    /\ stack0' = stack
    /\ UNCHANGED <<file, rd>>
    /\ FrameLoad

IdleLoad ==
    /\ file = File(<<>>, "none", 0)
    /\ rd = NoReader
    /\ ld = NoLoad

----------------------------------------------------------------------------
(* foreach_pair_in_table *)

\* the value the scratch slots of a callback hold
Scratch == LuaBoolean(TRUE)

RECURSIVE pushN(_, _, _)
pushN(s, v, n) == IF n = 0 THEN s ELSE pushN(push(s, v), v, n - 1)

\* entry: _tableIndex = abs(_lua, _tableIndex); push(_lua, nil)
foreach_begin ==
    /\ pc = "idle"
    /\ depth0' = top(stack)
    /\ tableIndex' = abs(stack, argIndex)
    /\ stack' = push(stack, LuaNil)
    /\ pc' = "next"
    /\ UNCHANGED <<heap, argIndex, keyIdx, valueIdx, calls, leaked>>
    /\ FrameIter

\* the indices handed to _fn
KeyIdxOf(t) == t - 1
ValueIdxOf(t) == t - 0

\* while (next(_lua, _tableIndex) != 0) { _top, _keyIdx, _valueIdx ...
foreach_next ==
    /\ pc = "next"
    /\ LET r == next(stack, heap, tableIndex)
       IN  /\ stack' = r.st
           /\ IF r.ret = 1
              THEN /\ keyIdx' = KeyIdxOf(top(r.st))
                   /\ valueIdx' = ValueIdxOf(top(r.st))
                   /\ pc' = "callback"
              ELSE /\ pc' = IF r.ret = 0 THEN "done" ELSE "error"
                   /\ UNCHANGED <<keyIdx, valueIdx>>
    /\ UNCHANGED <<heap, argIndex, tableIndex, calls, depth0, leaked>>
    /\ FrameIter

\* std::invoke(_fn, _lua, _keyIdx, _valueIdx) with a callback that leaves the
\* stack as it found it and pushes and pops k scratch values on the way
callback_balanced ==
    /\ pc = "callback"
    /\ \E k \in 0..MaxPush :
          stack' = pop(pushN(stack, Scratch, k), k)
    /\ calls' = Append(calls, <<stack[keyIdx], stack[valueIdx]>>)
    /\ pc' = "restore"
    /\ UNCHANGED <<heap, argIndex, tableIndex, keyIdx, valueIdx, depth0, leaked>>
    /\ FrameIter

\* std::invoke(_fn, ...) with a callback that pushes k values above the value
\* and does not pop them
callback_push ==
    /\ pc = "callback"
    /\ \E k \in 1..MaxPush :
          /\ stack' = pushN(stack, Scratch, k)
          /\ leaked' = leaked + k
    /\ calls' = Append(calls, <<stack[keyIdx], stack[valueIdx]>>)
    /\ pc' = "restore"
    /\ UNCHANGED <<heap, argIndex, tableIndex, keyIdx, valueIdx, depth0>>
    /\ FrameIter

\* std::invoke(_fn, ...) with a callback that pops the value and leaves the
\* key slot alone
callback_pop ==
    /\ pc = "callback"
    /\ stack' = pop(stack, 1)
    /\ leaked' = leaked - 1
    /\ calls' = Append(calls, <<stack[keyIdx], stack[valueIdx]>>)
    /\ pc' = "restore"
    /\ UNCHANGED <<heap, argIndex, tableIndex, keyIdx, valueIdx, depth0>>
    /\ FrameIter

\* remove(_lua, _valueIdx); if (top(_lua) != _keyIdx) { copy; remove }
restore_keyMut(s, k, v) == remove(s, v)
restore_key(s, k, v) ==
    LET s1 == remove(s, v)
    IN  IF top(s1) # k THEN remove(copy(s1, k), k) ELSE s1

\* an index that addresses a slot of the stack
ValidIndex(s, i) == i \in 1..top(s)

\* every index the restore passes to remove and copy addresses a slot
restore_valid(s, k, v) ==
    /\ ValidIndex(s, v)
    /\ LET s1 == remove(s, v)
       IN  top(s1) # k => ValidIndex(s1, k)

\* what a restore with an index above the top leaves: the runtime's index
\* check stops the program, or, without the check, remove(_valueIdx) pops the
\* top, copy(_keyIdx) pushes nil for the slot that is not there and
\* remove(_keyIdx) pops it again
restore_undefined(s, k, v) ==
    {s} \cup (IF ~ValidIndex(s, v) /\ top(s) > 0 THEN {pop(s, 1)} ELSE {})

foreach_restore ==
    /\ pc = "restore"
    /\ IF restore_valid(stack, keyIdx, valueIdx)
       THEN /\ stack' = restore_key(stack, keyIdx, valueIdx)
            /\ pc' = "next"
       ELSE /\ stack' \in restore_undefined(stack, keyIdx, valueIdx)
            /\ pc' = "invalid"
    /\ UNCHANGED <<heap, argIndex, tableIndex, keyIdx, valueIdx, calls, depth0, leaked>>
    /\ FrameIter

\* the keys of the iterated tables
Keys == 1..MaxPairs

\* the tables of the model: every traversal order of every set of keys
Contents ==
    UNION {{[i \in 1..n |-> <<LuaInt(f[i]), LuaInt(f[i] + 10)>>] :
              f \in {g \in [1..n -> Keys] :
                        \A i, j \in 1..n : i # j => g[i] # g[j]}} :
           n \in 0..MaxPairs}

\* the stacks foreach_pair_in_table is called on: the table, with or
\* without a slot below it and a slot above it
IterStacks ==
    {below \o <<LuaTable(1)>> \o above :
        below \in {<<>>, <<LuaInt(7)>>},
        above \in {<<>>, <<LuaString(<<1>>)>>}}

InitIter ==
    /\ stack \in IterStacks
    /\ heap \in {[i \in {1} |-> c] : c \in Contents}
    /\ \E p \in 1..Len(stack) :
          /\ stack[p].t = "table"
          /\ argIndex \in {p, p - Len(stack) - 1}
    /\ tableIndex = 0
    /\ pc = "idle"
    /\ keyIdx = 0
    /\ valueIdx = 0
    /\ calls = <<>>
    /\ depth0 = 0
    /\ leaked = 0
    /\ IdleInfo
    /\ IdleDebug
    /\ IdleUd
    /\ IdlePush
    /\ IdleExt
    /\ IdleLoad

NextIter ==
    \/ foreach_begin
    \/ foreach_next
    \/ callback_balanced
    \/ callback_push
    \/ foreach_restore

SpecIter == InitIter /\ [][NextIter]_vars

\* the traversal with callbacks that may also pop the value
NextIterPop ==
    \/ foreach_begin
    \/ foreach_next
    \/ callback_balanced
    \/ callback_push
    \/ callback_pop
    \/ foreach_restore

SpecIterPop == InitIter /\ [][NextIterPop]_vars

\* the pairs of the iterated table, in traversal order
IterPairs == heap[1]

\* C1: with callbacks that leave the stack as they found it, the traversal
\* never fails, hands the callback a prefix of the table's pairs while it
\* runs, and has handed it every pair exactly once when it returns (no call
\* for an empty table), for a positive and for a negative table index.
C1_EachPairOnce ==
    leaked = 0 =>
        /\ pc # "error"
        /\ Len(calls) <= Len(IterPairs)
        /\ calls = SubSeq(IterPairs, 1, Len(calls))
        /\ pc = "done" => calls = IterPairs

\* a traversal of a table of MaxPairs pairs, addressed by a negative index,
\* has returned after balanced callbacks only
C1_Witness ==
    /\ pc = "done"
    /\ leaked = 0
    /\ argIndex < 0
    /\ Len(IterPairs) = MaxPairs
    /\ Len(calls) = MaxPairs

\* C2: when foreach_pair_in_table returns, the stack is as deep as it was
\* when it was called, also after callbacks that pushed and did not pop.
C2_DepthRestored == pc = "done" => top(stack) = depth0

\* C3: the nil key is pushed at depth D = depth0 + 1; before every call of
\* next the key is at depth D and is the top of the stack; during every
\* callback the key is at depth D and the value at depth D + 1.
C3_CursorInvariant ==
    /\ pc = "next" => top(stack) = depth0 + 1
    /\ pc = "callback" => keyIdx = depth0 + 1 /\ valueIdx = depth0 + 2

\* C13: after a callback that pushed k >= 0 values and popped none of them,
\* the slot on top of the stack at the next call of next is the key that was
\* handed to that callback, and the traversal goes on from it: it never
\* fails and hands out the pairs of the table in order.
C13_KeyOnTop ==
    /\ (pc = "next" /\ Len(calls) > 0) =>
          stack[top(stack)] = calls[Len(calls)][1]
    /\ pc \notin {"error", "invalid"}
    /\ calls = SubSeq(IterPairs, 1, Len(calls))

\* the traversal went on to a second pair after a callback that pushed
C13_Witness ==
    /\ pc = "next"
    /\ leaked > 0
    /\ Len(calls) = 2
    /\ stack[top(stack)] = calls[2][1]

\* C14: when a callback pops the value, every index the protocol passes to
\* remove and copy after the callback addresses a slot of the stack, and the
\* key is on top at the next call of next.
C14_ValidIndices ==
    /\ pc # "invalid"
    /\ (pc = "next" /\ Len(calls) > 0) =>
          stack[top(stack)] = calls[Len(calls)][1]

IdleIter ==
    /\ pc = "idle"
    /\ argIndex = 0
    /\ tableIndex = 0
    /\ keyIdx = 0
    /\ valueIdx = 0
    /\ calls = <<>>
    /\ depth0 = 0
    /\ leaked = 0

IdleLua ==
    /\ stack = <<>>
    /\ heap = <<>>

----------------------------------------------------------------------------
(* The specification of the debug field encoder *)

InitInfo ==
    /\ fields \in NamedFields
    /\ fieldsRev = fields
    /\ onlyNamed = TRUE
    /\ encoded = FALSE
    /\ writer = info_field_writer
    /\ writerRev = info_field_writer
    /\ IdleLua
    /\ IdleIter
    /\ IdleDebug
    /\ IdleUd
    /\ IdlePush
    /\ IdleExt
    /\ IdleLoad

NextInfo ==
    \/ compose_or
    \/ compose_and
    \/ compose_xor
    \/ compose_not
    \/ compose_raw
    \/ encode

SpecInfo == InitInfo /\ [][NextInfo]_vars

\* the codes in the canonical order, as the documentation of the enum gives them
CanonicalCodes == <<">", "f", "l", "n", "r", "S", "t", "u", "L">>

\* the number of times code c occurs in string str
Occurrences(str, c) == Cardinality({i \in 1..Len(str) : str[i] = c})

\* the place of code c in the canonical order
Rank(c) == CHOOSE i \in 1..Len(CanonicalCodes) : CanonicalCodes[i] = c

\* C4: for a mask built from the nine named fields by |, & and ^, the string
\* holds the code of every set field exactly once, the code of no clear field,
\* only codes, in the canonical order; and composing with the operands of every
\* operator swapped gives the same string.
C4_CanonicalString ==
    (encoded /\ onlyNamed) =>
        LET str == CStr(writer.buf)
        IN  /\ \A i \in 1..Len(CanonicalCodes) :
                  Occurrences(str, CanonicalCodes[i]) = Bit(fields, i - 1)
            /\ \A i \in 1..Len(str) :
                  \E j \in 1..Len(CanonicalCodes) : str[i] = CanonicalCodes[j]
            /\ \A i, j \in 1..Len(str) : i < j => Rank(str[i]) < Rank(str[j])
            /\ CStr(writerRev.buf) = str

\* name | currentline was encoded, as the two-character string "ln"
C4_Witness ==
    /\ encoded
    /\ onlyNamed
    /\ fields = info_field_l + info_field_n
    /\ CStr(writer.buf) = <<"l", "n">>

\* C5: for every info_field value, also with bits outside the nine fields,
\* info_field_string appends at most nine characters, fails no assertion,
\* stays inside its buffer and leaves a zero right after the last code.
C5_BoundedBuffer ==
    encoded =>
        /\ ~writer.asserted
        /\ writer.it <= Len(FieldOrder)
        /\ writer.it < Len(writer.buf)
        /\ writer.buf[writer.it + 1] = NUL
        /\ \A i \in 1..writer.it : writer.buf[i] # NUL

\* the complement of a mask, with all nine fields and every bit outside them
\* set, was encoded: nine characters
C5_Witness ==
    /\ encoded
    /\ ~onlyNamed
    /\ fields = RepMax
    /\ writer.it = 9

----------------------------------------------------------------------------
(* The specification of getfunction *)

InitDebug ==
    /\ stack = <<>>
    /\ heap = <<>>
    /\ stack0 = <<>>
    /\ frames \in UNION {[1..n -> 1..2] : n \in 0..MaxFrames}
    /\ ar = debug_info
    /\ dbg = NoCall
    /\ IdleIter
    /\ IdleInfo
    /\ IdleUd
    /\ IdlePush
    /\ IdleExt
    /\ IdleLoad

NextDebug ==
    \/ call_getfunction
    \/ host_push
    \/ host_pop

SpecDebug == InitDebug /\ [][NextDebug]_vars

\* C6: getfunction returns false and leaves the stack as it was whenever
\* getstack or getinfo failed; it returns true only when both succeeded, and
\* then the stack is one slot deeper and the new slot is the function of the
\* level asked for.
C6_CleanFailure ==
    dbg.called =>
        /\ (~dbg.okStack \/ ~dbg.okInfo) => ~dbg.ret /\ stack = stack0
        /\ ~dbg.ret => stack = stack0
        /\ dbg.ret =>
              /\ dbg.okStack /\ dbg.okInfo
              /\ stack = Append(stack0, LuaFunction(frames[dbg.level + 1]))

\* getfunction was asked for a level above the last active call, with slots
\* on the stack, and returned false
C6_Witness ==
    /\ dbg.called
    /\ ~dbg.ret
    /\ dbg.level = Len(frames)
    /\ Len(frames) > 0
    /\ Len(stack) > 1

----------------------------------------------------------------------------
(* The specifications of the userdata lifecycle: SpecUd with the library   *)
(* alone, SpecUdEnv with other host code that uses the registry            *)

InitUd ==
    /\ IdleLua
    /\ IdleIter
    /\ IdleInfo
    /\ IdleDebug
    /\ IdleUd
    /\ IdlePush
    /\ IdleExt
    /\ IdleLoad

NextUd ==
    \/ call_newuserdata
    \/ ud_pop
    \/ gc_finalize
    \/ gc_free

SpecUd == InitUd /\ [][NextUd]_vars

NextUdEnv ==
    \/ call_newuserdata
    \/ ud_pop
    \/ gc_finalize
    \/ gc_free
    \/ host_newmetatable

SpecUdEnv == InitUd /\ [][NextUdEnv]_vars

\* the blocks of host type T
BlocksOf(T) == {u \in 1..Len(uds) : uds[u].type = T}

\* C7: over any sequence of newuserdata<T> calls, the finalizer descriptor of
\* a type that is not trivially destructible is created, and its __gc set,
\* exactly once, by the first call for the type; every block of the type has
\* that one descriptor, and no two types share a descriptor.
C7_RegisteredOnce ==
    \A T \in HostTypes :
        ~is_trivially_destructible(T) =>
            /\ BlocksOf(T) = {} => created[T] = 0 /\ gcSet[T] = 0
            /\ BlocksOf(T) # {} =>
                  /\ created[T] = 1
                  /\ gcSet[T] = 1
                  /\ \A u \in BlocksOf(T) :
                        /\ uds[u].mt = registry[userdata_type_name(T)]
                        /\ meta[uds[u].mt].gc = T
                  /\ Cardinality({i \in 1..Len(meta) : meta[i].gc = T}) = 1

\* two blocks of one type and one block of another type were allocated
C7_Witness ==
    /\ Cardinality(BlocksOf("Own")) = 2
    /\ Cardinality(BlocksOf("Box<Own>")) = 1

\* C8: every block newuserdata<T> returned for a T that is not trivially
\* destructible has the finalizer of T attached, whatever the registry held,
\* and when its memory is released the destructor of T has run on it exactly
\* once.
C8_FinalizedOnce ==
    \A u \in 1..Len(uds) :
        ~is_trivially_destructible(uds[u].type) =>
            /\ uds[u].fin
            /\ uds[u].mt # 0
            /\ meta[uds[u].mt].gc = uds[u].type
            /\ uds[u].state = "freed" => uds[u].dtors = 1

----------------------------------------------------------------------------
(* The specification of the marshalling registry *)

InitPush ==
    /\ IdleLua
    /\ IdleIter
    /\ IdleInfo
    /\ IdleDebug
    /\ IdleUd
    /\ IdlePush
    /\ IdleExt
    /\ IdleLoad

NextPush ==
    \/ marshal_fill
    \/ marshal_pop
    \/ push_integral
    \/ push_floating
    \/ push_bool
    \/ push_nil
    \/ push_fail
    \/ push_cstring
    \/ push_string_view
    \/ push_string
    \/ push_cfunction
    \/ push_cclosure
    \/ to_integral
    \/ to_floating
    \/ to_bool
    \/ to_cstring
    \/ to_string_view
    \/ to_string
    \/ to_cfunction

SpecPush == InitPush /\ [][NextPush]_vars

\* the types whose round trip C9 is about
RoundTripTypes == IntegralTypes \cup FloatingTypes \cup {"bool", "string_view"}

\* a to of type T at the slot that the push of a T right before it filled
PulledBack ==
    /\ op.kind = "to"
    /\ prev.kind = "push"
    /\ prev.ty = op.ty
    /\ abs(stack, op.idx) = Len(stack)

\* C9: a value of a signed integral type, a floating-point type, bool or
\* std::string_view that is pushed and pulled back as the same type at the
\* slot of the push comes back as the same value.
C9_RoundTrip ==
    (PulledBack /\ op.ty \in RoundTripTypes) => op.val = prev.val

\* the integer 42 was pushed as an int and pulled back as an int: 42
C9_Witness ==
    /\ PulledBack
    /\ op.ty = "int"
    /\ prev.val.s = FromInt(42, 32)
    /\ op.val.s = FromInt(42, 32)

\* C16: a std::string, zero bytes included, that is pushed through the
\* registry puts on the stack the value that the push of the string_view of
\* it and the plain overload push(state*, const std::string&) put there, and
\* pulled back as std::string it has the same length and bytes.
C16_OwnedString ==
    /\ (op.kind = "push" /\ op.ty = "string") =>
          /\ stack = traits_push_string_view(stack0, op.val)
          /\ stack = push_string_overload(stack0, op.val)
    /\ (PulledBack /\ op.ty = "string") => op.val = prev.val

\* C10: every push, also of a C function with n upvalues, makes the stack
\* one slot deeper and leaves the slots below unchanged, and every to leaves
\* the depth unchanged.
C10_PushAddsOne ==
    /\ op.kind = "push" =>
          /\ Len(stack) = Len(stack0) + 1
          /\ SubSeq(stack, 1, Len(stack0)) = stack0
    /\ op.kind = "to" => Len(stack) = Len(stack0)

\* C10, with the upvalues counted: a push of a C function with n upvalues
\* removes the n slots on top and pushes the closure (depth + 1 - n, the slots
\* below those n unchanged); every other push makes the stack one slot deeper
\* and leaves the slots below unchanged; every to leaves the depth unchanged.
C10_PushBalance ==
    /\ op.kind = "push" =>
          /\ Len(stack) = Len(stack0) + 1 - op.idx
          /\ SubSeq(stack, 1, Len(stack) - 1) = SubSeq(stack0, 1, Len(stack0) - op.idx)
          /\ op.idx > 0 => op.ty = "lua_CFunction"
    /\ op.kind = "to" => Len(stack) = Len(stack0)

\* a C function was pushed with two upvalues: the stack is one slot shallower
C10_Witness ==
    /\ op.kind = "push"
    /\ op.ty = "lua_CFunction"
    /\ op.idx = 2
    /\ Len(stack) = Len(stack0) - 1

----------------------------------------------------------------------------
(* The specification of the capability queries *)

InitTraits ==
    /\ IdleLua
    /\ IdleIter
    /\ IdleInfo
    /\ IdleDebug
    /\ IdleUd
    /\ IdlePush
    /\ IdleExt
    /\ IdleLoad

NextTraits ==
    \/ ask_pushable
    \/ ask_pullable

SpecTraits == InitTraits /\ [][NextTraits]_vars

\* C11: is_pushable is true exactly when stack_traits of the type has a push
\* that takes the extra arguments, is_pullable exactly when it has such a to
\* and the object is not const; every built-in type is pushable without extra
\* arguments, lua_CFunction also with one int; a type without a registry
\* entry is neither pushable nor pullable; nil_t and fail_t are pushable and
\* not pullable.
C11_Capabilities ==
    LET b == query.T.base
        ex == query.extras
        mine == [push |-> IF b \in BuiltinTypes
                          THEN IF b = "lua_CFunction"
                               THEN {<<>>, <<"int">>} ELSE {<<>>}
                          ELSE {},
                 to |-> IF b \in BuiltinTypes \ {"nil_t", "fail_t"}
                        THEN {<<>>} ELSE {}]
    IN  /\ query.trait = "is_pushable" =>
              /\ query.value = (ex \in mine.push)
              /\ (b \in BuiltinTypes /\ ex = <<>>) => query.value
              /\ b \in UnregisteredTypes => ~query.value
        /\ query.trait = "is_pullable" =>
              /\ query.value = (ex \in mine.to /\ ~query.T.const)
              /\ b \in {"nil_t", "fail_t"} \cup UnregisteredTypes => ~query.value

\* is_pushable_v<lua_CFunction, int> was evaluated: true
C11_Witness ==
    /\ query.trait = "is_pushable"
    /\ query.T.base = "lua_CFunction"
    /\ query.extras = <<"int">>
    /\ query.value

----------------------------------------------------------------------------
(* The specification of resume_result *)

InitResult ==
    /\ IdleLua
    /\ IdleIter
    /\ IdleInfo
    /\ IdleDebug
    /\ IdleUd
    /\ IdlePush
    /\ IdleExt
    /\ IdleLoad

NextResult ==
    \/ resume
    \/ call_is_error

SpecResult == InitResult /\ [][NextResult]_vars

\* C12: for each of the seven status codes and every result count,
\* is_error() is false when the status is ok or yield and true when it is
\* err_err, err_file, err_mem, err_syntax or err_run.
C12_IsError ==
    result.asked =>
        /\ status(result) \in {status_ok, status_yield} => ~result.answer
        /\ status(result) \in {status_err_err, status_err_file, status_err_mem,
                               status_err_syntax, status_err_run} => result.answer
        /\ Cardinality(StatusCodes) = 7

\* is_error() was called on a yield with results: false
C12_Witness ==
    /\ result.asked
    /\ status(result) = status_yield
    /\ nrets(result) > 0
    /\ ~result.answer

----------------------------------------------------------------------------
(* The specification of get_or_create_table *)

\* table 1 holds, under the first key of every kind, nothing, a number or
\* table 3; tables 2 and 3 are empty
TableHeaps ==
    {<<IF v = LuaNil THEN <<>>
       ELSE [i \in 1..3 |-> <<KeyOf(<<"void*", "int", "const char*">>[i], 1), v>>],
       <<>>, <<>>>> :
        v \in {LuaNil, LuaInt(5), LuaTable(3)}}

InitTable ==
    /\ stack = <<>>
    /\ heap \in TableHeaps
    /\ IdleIter
    /\ IdleInfo
    /\ IdleDebug
    /\ IdleUd
    /\ IdlePush
    /\ IdleExt
    /\ IdleLoad

NextTable ==
    \/ call_get_or_create_table_key
    \/ call_get_or_create_table_cstr
    \/ table_push
    \/ table_pop

SpecTable == InitTable /\ [][NextTable]_vars

\* what get_or_create_table is to leave: the stack one slot deeper with a
\* table on top, that table stored under the key in the table the index
\* addressed, a table that was there before kept, and every other table as
\* it was (a new one empty)
TableCallOk ==
    /\ ~goc.undef
    /\ Len(stack) = Len(stack0) + 1
    /\ SubSeq(stack, 1, Len(stack0)) = stack0
    /\ stack[Len(stack)].t = "table"
    /\ RawValue(heap[goc.target], goc.key) = stack[Len(stack)]
    /\ RawValue(heap0[goc.target], goc.key).t = "table" =>
          stack[Len(stack)] = RawValue(heap0[goc.target], goc.key)
    /\ \A t \in DOMAIN heap :
          t # goc.target =>
              heap[t] = IF t \in DOMAIN heap0 THEN heap0[t] ELSE <<>>

\* C15: after a call of any of the three overloads, with a positive or a
\* negative table index, the stack is one slot deeper, the top is a table
\* and is the value under the key in the table the index addressed, an
\* existing table value is kept and no other table is modified.
C15_AllOverloadsAlike == goc.called => TableCallOk

\* the overload with a const char* key, and every overload called with a
\* positive index, leaves what it is to leave
CstrOrPositiveOk ==
    (goc.called /\ (goc.overload = "const char*" \/ goc.index > 0)) => TableCallOk

----------------------------------------------------------------------------
(* The specification of loadfile *)

\* the bytes of a file of length n; the first byte is 1, or 27 when d = 26
Bytes(n, d) == [i \in 1..n |-> (i + d) % 256]

\* the files at _path: every length and two contents, readable, not to be
\* opened, or failing at the first byte or after it
Files ==
    {File(Bytes(n, d), "none", 0) : n \in 0..MaxFileLen, d \in {0, 26}}
    \cup {File(Bytes(n, 0), "open", 0) : n \in 0..MaxFileLen}
    \cup {File(Bytes(n, 0), "read", m) : n \in 1..MaxFileLen, m \in {0, 1}}

InitLoad ==
    /\ IdleLua
    /\ IdleIter
    /\ IdleInfo
    /\ IdleDebug
    /\ IdleUd
    /\ IdlePush
    /\ IdleExt
    /\ file \in Files
    /\ rd = NoReader
    /\ ld = NoLoad

NextLoad ==
    \/ loadfile_begin
    \/ reader_call
    \/ loadfile_end

SpecLoad == InitLoad /\ [][NextLoad]_vars

\* the number of bytes the first n calls of the reader returned
RECURSIVE Total(_, _)
Total(sizes, n) == IF n = 0 THEN 0 ELSE Total(sizes, n - 1) + sizes[n]

\* C17: on a file of length L that can be opened and read, every chunk the
\* reader returns has at most 128 bytes, the chunks in call order are the
\* bytes of the file from the start, and a call returns size zero exactly
\* when all L bytes were delivered before it: the call after the last byte,
\* and every later one.
C17_ReaderChunks ==
    file.fault = "none" =>
        /\ \A i \in DOMAIN rd.sizes :
              /\ rd.sizes[i] <= BufferSize
              /\ (rd.sizes[i] = 0) <=> (Total(rd.sizes, i - 1) = Len(file.bytes))
        /\ rd.delivered = SubSeq(file.bytes, 1, Total(rd.sizes, Len(rd.sizes)))

\* a file of two full buffers and one byte: three chunks, then end of input
\* twice
C17_Witness ==
    /\ file.fault = "none"
    /\ Len(file.bytes) = 2 * BufferSize + 1
    /\ rd.sizes = <<BufferSize, BufferSize, 1, 0, 0>>
    /\ rd.delivered = file.bytes

\* C18: when the file cannot be opened or read, loadfile returns err_file,
\* not ok, and the top of the stack is not a loaded chunk.
C18_FileError ==
    (ld.pc = "done" /\ file.fault # "none") =>
        /\ ld.status = status_err_file
        /\ ld.status # status_ok
        /\ stack[Len(stack)].t # "function"

====
